---- MODULE Spec2Model ----
(***************************************************************************)
(* Model of homework.py: a single-threaded bot that polls the homework     *)
(* review API every RETRY_PERIOD seconds and reports status changes and    *)
(* errors to one Telegram chat.                                            *)
(*                                                                         *)
(* The user-facing texts of the program are Cyrillic; string literals of   *)
(* this module are their ASCII transliterations, character order kept.     *)
(*                                                                         *)
(* Python values are records [t |-> type tag, s |-> str() rendering], so   *)
(* that truthiness, isinstance and f-string formatting are computed from   *)
(* the value the way the interpreter computes them.                        *)
(***************************************************************************)
EXTENDS Integers, Sequences, FiniteSets, TLC

VARIABLES
    env,                    \* os.environ as read at import: key -> value or None
    pc,                     \* position of main()
    now,                    \* time.time()
    timestamp,              \* main's local `timestamp`
    saved_homework_status,  \* main's local
    saved_error_message,    \* main's local
    response,               \* value returned by get_api_answer in this cycle
    error,                  \* exception caught by the cycle's except clauses
    message,                \* main's local `message`
    raised,                 \* exception propagating out of the try statement
    cycle,                  \* completed iterations of `while True`
    fetches,                \* requests.get calls made so far
    sends,                  \* bot.send_message calls made so far
    chat,                   \* what the Telegram chat has received
    cur,                    \* what the running iteration has done
    prev                    \* what the iteration before it did

vars == <<env, pc, now, timestamp, saved_homework_status, saved_error_message,
          response, error, message, raised, cycle, fetches, sends, chat, cur, prev>>

-----------------------------------------------------------------------------
(* Bounds of the model *)

MaxCycles == 4

-----------------------------------------------------------------------------
(* Python values *)

PyNone == [t |-> "None", s |-> "None"]
PyStr(s) == [t |-> "str", s |-> s]

\* bool(value)
Truthy(v) ==
    CASE v.t = "None" -> FALSE
      [] v.t = "str"  -> v.s # ""
      [] v.t = "int"  -> v.s # "0"
      [] v.t = "list" -> v.s # "[]"
      [] v.t = "dict" -> v.s # "{}"

\* a key that the dict does not hold
Absent == [t |-> "absent", s |-> ""]

\* dict.get(key): None when the key is absent
Get(d, key) == IF d[key].t = "absent" THEN PyNone ELSE d[key]

-----------------------------------------------------------------------------
(* Module constants *)

RETRY_PERIOD == 600

HOMEWORK_VERDICTS ==
    [approved  |-> "Rabota proverena: revyueru vsyo ponravilos. Ura!",
     reviewing |-> "Rabota vzyata na proverku revyuerom.",
     rejected  |-> "Rabota proverena: u revyuera est zamechaniya."]

EnvKeys == {"PRACTICUM_TOKEN", "TELEGRAM_TOKEN", "TELEGRAM_CHAT_ID"}

PRACTICUM_TOKEN == env["PRACTICUM_TOKEN"]
TELEGRAM_TOKEN == env["TELEGRAM_TOKEN"]
TELEGRAM_CHAT_ID == env["TELEGRAM_CHAT_ID"]

-----------------------------------------------------------------------------
(* Results of a call: a value returned or an exception raised *)

Return(v) == [kind |-> "return", exc |-> "", text |-> v]
Raise(e, text) == [kind |-> "raise", exc |-> e, text |-> text]
NoException == Raise("", "")

-----------------------------------------------------------------------------
(* The values the environment can hand to the program *)

\* os.getenv: None when the variable is not set, else its text (maybe empty)
EnvValues == {PyNone, PyStr(""), PyStr("token")}

StartTimes == {1000, 1300}

NameValues == {Absent, PyStr(""), PyStr("hw1")}
StatusValues == {Absent, PyStr("approved"), PyStr("reviewing"),
                 PyStr("rejected"), PyStr("unknown")}

\* elements of the `homeworks` list: homework records, and one that is no dict
HomeworkRecords ==
    {[t |-> "dict", homework_name |-> n, status |-> st] :
        n \in NameValues, st \in StatusValues}
NotARecord == [t |-> "str", homework_name |-> Absent, status |-> Absent]
Elements == HomeworkRecords \cup {NotARecord}
LaterElements ==
    {NotARecord,
     [t |-> "dict", homework_name |-> PyStr("hw1"), status |-> PyStr("approved")]}

\* values under the key `homeworks`
Scalar(t, s) == [t |-> t, s |-> s, items |-> <<>>]
List(items) == [t |-> "list", s |-> IF items = <<>> THEN "[]" ELSE "[...]",
                items |-> items]
HomeworksValues ==
    {Scalar("absent", ""), Scalar("None", "None"), Scalar("int", "0"),
     Scalar("str", ""), Scalar("dict", "{}"), List(<<>>),
     Scalar("int", "5"), Scalar("str", "abc"), Scalar("dict", "{...}")}
    \cup {List(<<e>>) : e \in Elements}
    \cup {List(<<e, l>>) : e \in Elements, l \in LaterElements}

\* response.json()
JsonValue(t, homeworks) == [t |-> t, homeworks |-> homeworks]
NoResponse == JsonValue("unset", Scalar("absent", ""))
Responses ==
    {JsonValue("dict", h) : h \in HomeworksValues}
    \cup {JsonValue(t, Scalar("absent", "")) : t \in {"list", "None", "str"}}

\* what requests.get does: a RequestException, or a reply with a status code
\* whose body is JSON or is not
Reply(io, status_code, detail, body) ==
    [io |-> io, status_code |-> status_code, detail |-> detail, body |-> body]
Replies ==
    {Reply("RequestException", 0, d, NoResponse) :
        d \in {"Read timed out.", "Name or service not known"}}
    \cup {Reply("response", c, "", NoResponse) : c \in {404, 500}}
    \cup {Reply("response", 200, "Expecting value", JsonValue("invalid", Scalar("absent", "")))}
    \cup {Reply("response", 200, "", r) : r \in Responses}

\* what bot.send_message does
TelegramOutcomes == {"ok", "TelegramError"}

-----------------------------------------------------------------------------
(* The functions of homework.py *)

\* check_tokens with TELEGRAM_CHAT_ID left out of env_variables
check_tokens_TwoKeys ==
    IF \E key \in {"PRACTICUM_TOKEN", "TELEGRAM_TOKEN"} : env[key].t = "None"
    THEN Raise("SystemExit", "Kriticheskaya oshibka, vypolnenie programmy ostanovleno.")
    ELSE Return("")

\* check_tokens(): sys.exit when a variable is None
check_tokens ==
    IF \E key \in EnvKeys : env[key].t = "None"
    THEN Raise("SystemExit", "Kriticheskaya oshibka, vypolnenie programmy ostanovleno.")
    ELSE Return("")

\* telegram.Bot(token=TELEGRAM_TOKEN): the library rejects an empty token
Bot ==
    IF Truthy(TELEGRAM_TOKEN) THEN Return("") ELSE Raise("InvalidToken", "Invalid token")

\* send_message(bot, message), tg being what bot.send_message does
send_message(tg) ==
    IF tg = "TelegramError"
    THEN Raise("TelegramAnyErrorException", "Sboi v rabote Telegram")
    ELSE Return("")

\* the query parameters get_api_answer(timestamp) sends
Payload(ts) == [from_date |-> ts]

\* get_api_answer(timestamp), reply being what requests.get does
get_api_answer(reply) ==
    IF reply.io = "RequestException"
    THEN Raise("ConnectionError", "Prochie oshibki zaprosa: " \o reply.detail)
    ELSE IF reply.status_code # 200
    THEN Raise("ConnectionError", "Oshibka svyazi s Endpoint.")
    ELSE IF reply.body.t = "invalid"
    THEN Raise("JSONDecodeError", reply.detail)
    ELSE Return(reply.body)

\* check_response with the list check made before the emptiness check
check_response_ListCheckFirst(r) ==
    IF r.t # "dict"
    THEN Raise("TypeError", "Ne tot tip dannyh. Dolzhen byt \"dict\"")
    ELSE IF Get(r, "homeworks").t # "list"
    THEN Raise("TypeError", "Ne tot tip dannyh. Dolzhen byt \"list\"")
    ELSE IF ~Truthy(Get(r, "homeworks"))
    THEN Raise("MissiningKeyException", "Net dannyh o domashke.")
    ELSE IF Get(r, "homeworks").items[1].t # "dict"
    THEN Raise("TypeError", "Ne tot tip dannyh. Dolzhen byt \"dict\"")
    ELSE Return("")

\* check_response testing every element of the list, not the first alone
check_response_EveryElement(r) ==
    IF r.t # "dict"
    THEN Raise("TypeError", "Ne tot tip dannyh. Dolzhen byt \"dict\"")
    ELSE IF ~Truthy(Get(r, "homeworks"))
    THEN Raise("MissiningKeyException", "Net dannyh o domashke.")
    ELSE IF Get(r, "homeworks").t # "list"
    THEN Raise("TypeError", "Ne tot tip dannyh. Dolzhen byt \"list\"")
    ELSE IF \E i \in DOMAIN Get(r, "homeworks").items :
                Get(r, "homeworks").items[i].t # "dict"
    THEN Raise("TypeError", "Ne tot tip dannyh. Dolzhen byt \"dict\"")
    ELSE Return("")

\* check_response(response)
check_response(r) ==
    IF r.t # "dict"
    THEN Raise("TypeError", "Ne tot tip dannyh. Dolzhen byt \"dict\"")
    ELSE IF ~Truthy(Get(r, "homeworks"))
    THEN Raise("MissiningKeyException", "Net dannyh o domashke.")
    ELSE IF Get(r, "homeworks").t # "list"
    THEN Raise("TypeError", "Ne tot tip dannyh. Dolzhen byt \"list\"")
    ELSE IF Get(r, "homeworks").items[1].t # "dict"
    THEN Raise("TypeError", "Ne tot tip dannyh. Dolzhen byt \"dict\"")
    ELSE Return("")

\* status in HOMEWORK_VERDICTS
InVerdicts(v) == v.t = "str" /\ v.s \in DOMAIN HOMEWORK_VERDICTS

\* parse_status testing the name for None only, so that an empty name passes
parse_status_EmptyNamePasses(homework) ==
    IF Get(homework, "homework_name").t = "None"
    THEN Raise("KeyError", "Net klyucha \"homework_name\".")
    ELSE IF ~InVerdicts(Get(homework, "status"))
    THEN Raise("KeyError", "Neozhidannyi status domashnei raboty")
    ELSE Return("Izmenilsya status proverki raboty \""
                \o Get(homework, "homework_name").s \o "\". "
                \o HOMEWORK_VERDICTS[Get(homework, "status").s])

\* parse_status(homework)
parse_status(homework) ==
    IF ~Truthy(Get(homework, "homework_name"))
    THEN Raise("KeyError", "Net klyucha \"homework_name\".")
    ELSE IF ~InVerdicts(Get(homework, "status"))
    THEN Raise("KeyError", "Neozhidannyi status domashnei raboty")
    ELSE Return("Izmenilsya status proverki raboty \""
                \o Get(homework, "homework_name").s \o "\". "
                \o HOMEWORK_VERDICTS[Get(homework, "status").s])

\* BenignMessage with the text of the other except clause
BenignMessage_FaultText(e) == "Sboi v rabote programmy: " \o e.text

\* the messages main() builds in its two except clauses
BenignMessage(e) == "Rabota poka ne na proverke: " \o e.text
FaultMessage(e) == "Sboi v rabote programmy: " \o e.text

GREETING == "Ya budu inforirovat o statuse proverki tvoei domashki."

-----------------------------------------------------------------------------
(* The Telegram chat: the texts bot.send_message has delivered to it *)

StartsWith(text, prefix) ==
    /\ Len(text) >= Len(prefix)
    /\ SubSeq(text, 1, Len(prefix)) = prefix

FaultPrefix == "Sboi v rabote programmy: "
BenignPrefix == "Rabota poka ne na proverke: "
StatusPrefix == "Izmenilsya status proverki raboty "

\* the chat before anything was sent: whether the greeting has arrived, the last
\* text that arrived, the last status text and the last error text that arrived
EmptyChat == [greeted |-> FALSE, last |-> "", status |-> "", error |-> ""]

\* the chat after bot.send_message(TELEGRAM_CHAT_ID, text) has returned
Received(c, text) ==
    [greeted |-> c.greeted \/ text = GREETING,
     last    |-> text,
     status  |-> IF StartsWith(text, StatusPrefix) THEN text ELSE c.status,
     error   |-> IF StartsWith(text, FaultPrefix) \/ StartsWith(text, BenignPrefix)
                 THEN text ELSE c.error]

-----------------------------------------------------------------------------
(* What one iteration of the loop has done (history, read by no action):      *)
(* the outcome of each call, the message built, the two slots as the         *)
(* iteration found them, whether the message differs from the one of the     *)
(* iteration before (first), whether bot.send_message was called (notified)  *)
(* and returned (delivered), and whether the sleep was done; the from_date    *)
(* the request carried, the number of sends made before the iteration and    *)
(* the last text, and the last error text, the chat had received before it   *)
(* (shown, shown_error).                                                     *)

NoCycle ==
    [fetch |-> "", check |-> "", format |-> "", branch |-> "", message |-> "",
     slot_status |-> "", slot_error |-> "", from_date |-> 0,
     sends_before |-> 0, shown |-> "", shown_error |-> "",
     first |-> FALSE, notified |-> FALSE, delivered |-> FALSE, slept |-> FALSE]

-----------------------------------------------------------------------------
(* main() *)

Init ==
    /\ env \in [EnvKeys -> EnvValues]
    /\ now \in StartTimes
    /\ pc = "check_tokens"
    /\ timestamp = 0
    /\ saved_homework_status = ""
    /\ saved_error_message = ""
    /\ response = NoResponse
    /\ error = NoException
    /\ message = ""
    /\ raised = NoException
    /\ cycle = 0
    /\ fetches = 0
    /\ sends = 0
    /\ chat = EmptyChat
    /\ cur = NoCycle
    /\ prev = NoCycle

\* lines 119-141 as one function: what an iteration does with the response r
\* when it finds the slots holding st and er and bot.send_message does tg.
\* check is the outcome of check_response, call the text handed to
\* send_message ("" when it is not called), status and error the slots after
\* the iteration, raised the exception that leaves the try statement.
IterationOutcome(r, st, er, tg) ==
    LET checked == check_response(r)
        Quiet(c, exc) ==
            [check |-> c, call |-> "", status |-> st, error |-> er, raised |-> exc]
        Notify(c, text, slot) ==
            IF send_message(tg).kind = "raise"
            THEN [check |-> c, call |-> text, status |-> st, error |-> er,
                  raised |-> send_message(tg).exc]
            ELSE [check |-> c, call |-> text,
                  status |-> IF slot = "status" THEN text ELSE st,
                  error |-> IF slot = "error" THEN text ELSE er,
                  raised |-> ""]
    IN  IF checked.kind = "raise"
        THEN LET text == IF checked.exc = "MissiningKeyException"
                         THEN BenignMessage(checked) ELSE FaultMessage(checked)
             IN  IF text # er
                 THEN Notify(checked.exc, text, "error")
                 ELSE Quiet(checked.exc, "")
        ELSE LET parsed == parse_status(Get(r, "homeworks").items[1])
             IN  IF parsed.kind = "raise"
                 THEN Quiet("ok", parsed.exc)
                 ELSE IF st = parsed.text
                 THEN Quiet("ok", "")
                 ELSE Notify("ok", parsed.text, "status")

\* line 106
CheckTokens ==
    /\ pc = "check_tokens"
    /\ IF check_tokens.kind = "raise"
       THEN /\ raised' = check_tokens
            /\ pc' = "exited"
       ELSE /\ raised' = raised
            /\ pc' = "bot"
    /\ UNCHANGED <<env, chat, now, timestamp, saved_homework_status, saved_error_message,
                   response, error, message, cycle, fetches, sends, cur, prev>>

\* lines 108-110
MakeBot ==
    /\ pc = "bot"
    /\ IF Bot.kind = "raise"
       THEN /\ raised' = Bot
            /\ pc' = "exited"
            /\ timestamp' = timestamp
       ELSE /\ raised' = raised
            /\ timestamp' = now - RETRY_PERIOD
            /\ pc' = "greeting"
    /\ UNCHANGED <<env, chat, now, saved_homework_status, saved_error_message,
                   response, error, message, cycle, fetches, sends, cur, prev>>

\* Greeting going on to the loop when the greeting send raises
Greeting_IgnoresFailure ==
    /\ pc = "greeting"
    /\ \E tg \in TelegramOutcomes :
        /\ sends' = sends + 1
        /\ chat' = IF send_message(tg).kind = "raise"
                   THEN chat ELSE Received(chat, GREETING)
    /\ raised' = raised
    /\ pc' = "get_api_answer"
    /\ saved_homework_status' = ""
    /\ saved_error_message' = ""
    /\ UNCHANGED <<env, now, timestamp, response, error, message, cycle, fetches,
                   cur, prev>>

\* lines 111-114
Greeting ==
    /\ pc = "greeting"
    /\ \E tg \in TelegramOutcomes :
        /\ sends' = sends + 1
        /\ IF send_message(tg).kind = "raise"
           THEN /\ raised' = send_message(tg)
                /\ chat' = chat
                /\ pc' = "exited"
           ELSE /\ raised' = raised
                /\ chat' = Received(chat, GREETING)
                /\ pc' = "get_api_answer"
    /\ saved_homework_status' = ""
    /\ saved_error_message' = ""
    /\ UNCHANGED <<env, now, timestamp, response, error, message, cycle, fetches,
                   cur, prev>>

\* line 118
GetApiAnswer ==
    /\ pc = "get_api_answer"
    /\ cycle < MaxCycles
    /\ \E reply \in Replies :
        LET result == get_api_answer(reply) IN
        /\ fetches' = fetches + 1
        /\ IF result.kind = "raise"
           THEN /\ error' = result
                /\ response' = response
                /\ pc' = "except"
           ELSE /\ error' = error
                /\ response' = result.text
                /\ pc' = "check_response"
        /\ cur' = [cur EXCEPT !.fetch = IF result.kind = "raise" THEN result.exc ELSE "ok",
                              !.slot_status = saved_homework_status,
                              !.slot_error = saved_error_message,
                              !.from_date = Payload(timestamp).from_date,
                              !.sends_before = sends,
                              !.shown = chat.last,
                              !.shown_error = chat.error]
    /\ UNCHANGED <<env, chat, now, timestamp, saved_homework_status, saved_error_message,
                   message, raised, cycle, sends, prev>>

\* lines 119-120
CheckResponse ==
    /\ pc = "check_response"
    /\ LET result == check_response(response) IN
        /\ IF result.kind = "raise"
           THEN /\ error' = result
                /\ pc' = "except"
           ELSE /\ error' = error
                /\ pc' = "parse_status"
        /\ cur' = [cur EXCEPT !.check = IF result.kind = "raise" THEN result.exc ELSE "ok"]
    /\ UNCHANGED <<env, chat, now, timestamp, saved_homework_status, saved_error_message,
                   response, message, raised, cycle, fetches, sends, prev>>

\* lines 122-125
ExceptMissiningKey ==
    /\ pc = "except"
    /\ error.exc = "MissiningKeyException"
    /\ message' = BenignMessage(error)
    /\ cur' = [cur EXCEPT !.branch = "benign", !.message = BenignMessage(error),
                          !.first = (prev.message # BenignMessage(error))]
    /\ pc' = IF BenignMessage(error) # saved_error_message
             THEN "send_message" ELSE "finally"
    /\ UNCHANGED <<env, chat, now, timestamp, saved_homework_status, saved_error_message,
                   response, error, raised, cycle, fetches, sends, prev>>

\* ExceptException comparing the message with the wrong slot
ExceptException_WrongSlot ==
    /\ pc = "except"
    /\ error.exc # "MissiningKeyException"
    /\ message' = FaultMessage(error)
    /\ cur' = [cur EXCEPT !.branch = "fault", !.message = FaultMessage(error),
                          !.first = (prev.message # FaultMessage(error))]
    /\ pc' = IF FaultMessage(error) # saved_homework_status
             THEN "send_message" ELSE "finally"
    /\ UNCHANGED <<env, chat, now, timestamp, saved_homework_status, saved_error_message,
                   response, error, raised, cycle, fetches, sends, prev>>

\* lines 129-132
ExceptException ==
    /\ pc = "except"
    /\ error.exc # "MissiningKeyException"
    /\ message' = FaultMessage(error)
    /\ cur' = [cur EXCEPT !.branch = "fault", !.message = FaultMessage(error),
                          !.first = (prev.message # FaultMessage(error))]
    /\ pc' = IF FaultMessage(error) # saved_error_message
             THEN "send_message" ELSE "finally"
    /\ UNCHANGED <<env, chat, now, timestamp, saved_homework_status, saved_error_message,
                   response, error, raised, cycle, fetches, sends, prev>>

\* ParseStatus without the comparison with saved_homework_status
ParseStatus_AlwaysSends ==
    /\ pc = "parse_status"
    /\ LET homeworks == Get(response, "homeworks")
           result == parse_status(homeworks.items[1]) IN
        IF result.kind = "raise"
        THEN /\ raised' = result
             /\ message' = message
             /\ cur' = [cur EXCEPT !.branch = "else", !.format = result.exc]
             /\ pc' = "finally"
        ELSE /\ raised' = raised
             /\ message' = result.text
             /\ cur' = [cur EXCEPT !.branch = "else", !.format = "ok",
                                   !.message = result.text,
                                   !.first = (prev.message # result.text)]
             /\ pc' = "send_message"
    /\ UNCHANGED <<env, chat, now, timestamp, saved_homework_status, saved_error_message,
                   response, error, cycle, fetches, sends, prev>>

\* lines 135-139: the else clause, whose exceptions no except clause catches
ParseStatus ==
    /\ pc = "parse_status"
    /\ LET homeworks == Get(response, "homeworks")
           result == parse_status(homeworks.items[1]) IN
        IF result.kind = "raise"
        THEN /\ raised' = result
             /\ message' = message
             /\ cur' = [cur EXCEPT !.branch = "else", !.format = result.exc]
             /\ pc' = "finally"
        ELSE /\ raised' = raised
             /\ message' = result.text
             /\ cur' = [cur EXCEPT !.branch = "else", !.format = "ok",
                                   !.message = result.text,
                                   !.first = (prev.message # result.text)]
             /\ pc' = IF saved_homework_status = result.text
                      THEN "finally" ELSE "send_message"
    /\ UNCHANGED <<env, chat, now, timestamp, saved_homework_status, saved_error_message,
                   response, error, cycle, fetches, sends, prev>>

\* SendMessage with the slot assigned before the send, so that a send that
\* raises leaves it assigned
SendMessage_SavesBeforeSend ==
    /\ pc = "send_message"
    /\ \E tg \in TelegramOutcomes :
        /\ sends' = sends + 1
        /\ IF send_message(tg).kind = "raise"
           THEN /\ raised' = send_message(tg)
                /\ chat' = chat
                /\ cur' = [cur EXCEPT !.notified = TRUE]
           ELSE /\ raised' = raised
                /\ chat' = Received(chat, message)
                /\ cur' = [cur EXCEPT !.notified = TRUE, !.delivered = TRUE]
    /\ saved_homework_status' =
          IF cur.branch = "else" THEN message ELSE saved_homework_status
    /\ saved_error_message' =
          IF cur.branch = "else" THEN saved_error_message ELSE message
    /\ pc' = "finally"
    /\ UNCHANGED <<env, now, timestamp, response, error, message, cycle, fetches, prev>>

\* SendMessage trying the send a second time when the first raises
SendMessage_RetriesOnce ==
    /\ pc = "send_message"
    /\ \E tg \in TelegramOutcomes :
        /\ sends' = sends + 1
        /\ IF send_message(tg).kind = "raise"
           THEN /\ raised' = IF cur.notified THEN send_message(tg) ELSE raised
                /\ pc' = IF cur.notified THEN "finally" ELSE "send_message"
                /\ chat' = chat
                /\ cur' = [cur EXCEPT !.notified = TRUE]
                /\ UNCHANGED <<saved_homework_status, saved_error_message>>
           ELSE /\ raised' = raised
                /\ pc' = "finally"
                /\ chat' = Received(chat, message)
                /\ cur' = [cur EXCEPT !.notified = TRUE, !.delivered = TRUE]
                /\ saved_homework_status' =
                      IF cur.branch = "else" THEN message ELSE saved_homework_status
                /\ saved_error_message' =
                      IF cur.branch = "else" THEN saved_error_message ELSE message
    /\ UNCHANGED <<env, now, timestamp, response, error, message, cycle, fetches, prev>>

\* SendMessage assigning the slot of the other kind of message
SendMessage_WrongSlot ==
    /\ pc = "send_message"
    /\ \E tg \in TelegramOutcomes :
        /\ sends' = sends + 1
        /\ IF send_message(tg).kind = "raise"
           THEN /\ raised' = send_message(tg)
                /\ chat' = chat
                /\ cur' = [cur EXCEPT !.notified = TRUE]
                /\ UNCHANGED <<saved_homework_status, saved_error_message>>
           ELSE /\ raised' = raised
                /\ chat' = Received(chat, message)
                /\ cur' = [cur EXCEPT !.notified = TRUE, !.delivered = TRUE]
                /\ saved_homework_status' =
                      IF cur.branch # "else" THEN message ELSE saved_homework_status
                /\ saved_error_message' =
                      IF cur.branch # "else" THEN saved_error_message ELSE message
    /\ pc' = "finally"
    /\ UNCHANGED <<env, now, timestamp, response, error, message, cycle, fetches, prev>>

\* SendMessage forgetting the last error message once a status message is sent
SendMessage_StatusClearsError ==
    /\ pc = "send_message"
    /\ \E tg \in TelegramOutcomes :
        /\ sends' = sends + 1
        /\ IF send_message(tg).kind = "raise"
           THEN /\ raised' = send_message(tg)
                /\ chat' = chat
                /\ cur' = [cur EXCEPT !.notified = TRUE]
                /\ UNCHANGED <<saved_homework_status, saved_error_message>>
           ELSE /\ raised' = raised
                /\ chat' = Received(chat, message)
                /\ cur' = [cur EXCEPT !.notified = TRUE, !.delivered = TRUE]
                /\ saved_homework_status' =
                      IF cur.branch = "else" THEN message ELSE saved_homework_status
                /\ saved_error_message' =
                      IF cur.branch = "else" THEN "" ELSE message
    /\ pc' = "finally"
    /\ UNCHANGED <<env, now, timestamp, response, error, message, cycle, fetches, prev>>

\* lines 126-127, 133-134, 140-141: the send and the assignment after it, which
\* an exception from the send skips
SendMessage ==
    /\ pc = "send_message"
    /\ \E tg \in TelegramOutcomes :
        /\ sends' = sends + 1
        /\ IF send_message(tg).kind = "raise"
           THEN /\ raised' = send_message(tg)
                /\ chat' = chat
                /\ cur' = [cur EXCEPT !.notified = TRUE]
                /\ UNCHANGED <<saved_homework_status, saved_error_message>>
           ELSE /\ raised' = raised
                /\ chat' = Received(chat, message)
                /\ cur' = [cur EXCEPT !.notified = TRUE, !.delivered = TRUE]
                /\ saved_homework_status' =
                      IF cur.branch = "else" THEN message ELSE saved_homework_status
                /\ saved_error_message' =
                      IF cur.branch = "else" THEN saved_error_message ELSE message
    /\ pc' = "finally"
    /\ UNCHANGED <<env, now, timestamp, response, error, message, cycle, fetches, prev>>

\* Finally with the sleep skipped when an exception is leaving the try statement
Finally_NoSleepOnException ==
    /\ pc = "finally"
    /\ now' = IF raised.exc # "" THEN now ELSE now + RETRY_PERIOD
    /\ cycle' = cycle + 1
    /\ prev' = [cur EXCEPT !.slept = TRUE]
    /\ cur' = NoCycle
    /\ pc' = IF raised.kind = "raise" /\ raised.exc # "" THEN "exited" ELSE "get_api_answer"
    /\ error' = NoException
    /\ response' = NoResponse
    /\ message' = ""
    /\ UNCHANGED <<env, chat, timestamp, saved_homework_status, saved_error_message,
                   raised, fetches, sends>>

\* Finally with the poll window moved to the time of the wake-up
Finally_AdvancesCursor ==
    /\ pc = "finally"
    /\ now' = now + RETRY_PERIOD
    /\ timestamp' = now + RETRY_PERIOD
    /\ cycle' = cycle + 1
    /\ prev' = [cur EXCEPT !.slept = TRUE]
    /\ cur' = NoCycle
    /\ pc' = IF raised.kind = "raise" /\ raised.exc # "" THEN "exited" ELSE "get_api_answer"
    /\ error' = NoException
    /\ response' = NoResponse
    /\ message' = ""
    /\ UNCHANGED <<env, chat, saved_homework_status, saved_error_message,
                   raised, fetches, sends>>

\* lines 142-145, then the next iteration, or the exception leaves main()
Finally ==
    /\ pc = "finally"
    /\ now' = now + RETRY_PERIOD
    /\ cycle' = cycle + 1
    /\ prev' = [cur EXCEPT !.slept = TRUE]
    /\ cur' = NoCycle
    /\ pc' = IF raised.kind = "raise" /\ raised.exc # "" THEN "exited" ELSE "get_api_answer"
    \* `error` is unbound when its except clause ends; `response` and `message`
    \* are assigned again before the next iteration reads them
    /\ error' = NoException
    /\ response' = NoResponse
    /\ message' = ""
    /\ UNCHANGED <<env, chat, timestamp, saved_homework_status, saved_error_message,
                   raised, fetches, sends>>

Next ==
    \/ CheckTokens
    \/ MakeBot
    \/ Greeting
    \/ GetApiAnswer
    \/ CheckResponse
    \/ ExceptMissiningKey
    \/ ExceptException
    \/ ParseStatus
    \/ SendMessage
    \/ Finally

Spec == Init /\ [][Next]_vars

-----------------------------------------------------------------------------
(* Vocabulary of the properties *)

\* the iteration has done its work and stands before the sleep of `finally`
CycleDone == pc = "finally"

\* an exception is on its way out of the try statement: main() ends after the sleep
Propagating == raised.exc # ""

\* the iteration's message was built and not sent because it equals the slot
SuppressedError == cur.message = cur.slot_error /\ ~cur.notified

-----------------------------------------------------------------------------
(* C1 *)

\* C1 (as claimed): in a cycle where the fetch and the validation succeed and
\* parse_status fails on the first record, the loop catches the failure, hands a
\* "Sboi v rabote programmy: ..." message to the Notifier unless it equals the
\* last error message, and goes on to a further cycle.
C1_FormatFailureReportedAndLoopContinues ==
    (CycleDone /\ cur.fetch = "ok" /\ cur.check = "ok" /\ cur.format = "KeyError")
    => /\ StartsWith(cur.message, FaultPrefix)
       /\ (cur.notified \/ SuppressedError)
       /\ ~Propagating

-----------------------------------------------------------------------------
(* C2 *)

\* C2 (as claimed): past the credential check the loop never ends on its own;
\* after any cycle, whatever the fetch, the validation, the formatting and the
\* send did, the sleep is followed by a further fetch: main() has not exited.
\* Stated for the cycles in which parse_status did not fail (those are C1's), so
\* that what is left to refute it is a send that raised.
C2_LoopNeverExitsAfterACycle ==
    (prev.slept /\ prev.format # "KeyError") => pc # "exited"

-----------------------------------------------------------------------------
(* C3 *)

\* two consecutive iterations, the second standing before its sleep, that both
\* formatted a status message, the same one
TwoEqualStatusCycles ==
    /\ CycleDone
    /\ prev.slept
    /\ prev.format = "ok"
    /\ cur.format = "ok"
    /\ prev.message = cur.message

\* C3 (as claimed): over two consecutive successful cycles with the same
\* formatted message the Notifier is invoked exactly once, in the first cycle.
\* Stated for the two cycles that open a run of equal messages (the cycle before
\* them did not produce this message), the reading most favourable to the claim.
C3_Original_SentExactlyOnceInTheFirst ==
    (TwoEqualStatusCycles /\ prev.first) => (prev.notified /\ ~cur.notified)

\* C3 (amended): over two consecutive successful cycles with the same formatted
\* message the Notifier is never invoked in the second, and is invoked in the
\* first exactly when the message differs from the last status message sent
\* before it; so the message is sent at most once, and only in the first.
C3_SentAtMostOnceAndOnlyInTheFirst ==
    TwoEqualStatusCycles
    => /\ ~cur.notified
       /\ (prev.notified <=> prev.message # prev.slot_status)
       /\ saved_homework_status = cur.message

\* C3 witness: the message was sent in the first cycle and suppressed in the second
C3_Witness ==
    /\ TwoEqualStatusCycles
    /\ prev.notified
    /\ prev.delivered
    /\ ~cur.notified

-----------------------------------------------------------------------------
(* C4 *)

\* two consecutive iterations, the second standing before its sleep, that both
\* ended in an except clause
TwoErrorCycles ==
    /\ CycleDone
    /\ prev.slept
    /\ prev.branch \in {"benign", "fault"}
    /\ cur.branch \in {"benign", "fault"}

\* C4 (as claimed): of two consecutive failing cycles with the same error message
\* the Notifier is invoked once across the two; with a different message in the
\* second, of either kind, it is invoked again for the second.  Stated for two
\* cycles the first of which opens a run (the cycle before them did not produce
\* its message), the reading most favourable to the claim.
C4_Original_SameErrorNotifiedOnce ==
    (TwoErrorCycles /\ prev.first)
    => IF cur.message = prev.message
       THEN prev.notified /\ ~cur.notified
       ELSE cur.notified

\* C4 (amended): of two consecutive failing cycles, when the second message equals
\* the first the Notifier is not invoked in the second cycle, and is invoked in
\* the first exactly when its message differs from the last error message sent
\* before it; when the second message differs, of either kind, the Notifier is
\* invoked for it.  Both kinds are compared with, and a delivered one overwrites,
\* the one slot saved_error_message.
C4_SameErrorSuppressedDifferentErrorNotified ==
    TwoErrorCycles
    => /\ cur.slot_error = prev.message
       /\ IF cur.message = prev.message
          THEN /\ ~cur.notified
               /\ (prev.notified <=> prev.message # prev.slot_error)
          ELSE cur.notified
       /\ (cur.delivered => saved_error_message = cur.message)
       /\ saved_homework_status = prev.slot_status

\* C4 witness: a fault message follows a different, benign one and is sent too
C4_Witness ==
    /\ TwoErrorCycles
    /\ prev.branch = "benign"
    /\ cur.branch = "fault"
    /\ prev.delivered
    /\ cur.delivered
    /\ saved_error_message = cur.message

-----------------------------------------------------------------------------
(* C5 *)

\* the response holds a key `homeworks` whose value is absent or falsy
NoHomeworks(r) ==
    /\ r.t = "dict"
    /\ \/ r.homeworks.t \in {"absent", "None"}
       \/ r.homeworks.t = "int" /\ r.homeworks.s = "0"
       \/ r.homeworks.t = "str" /\ r.homeworks.s = ""
       \/ r.homeworks.t = "dict" /\ r.homeworks.s = "{}"
       \/ r.homeworks.t = "list" /\ Len(r.homeworks.items) = 0

\* the response lacks a non-empty `homeworks` sequence
LacksHomeworksSequence(r) ==
    ~(r.t = "dict" /\ r.homeworks.t = "list" /\ Len(r.homeworks.items) > 0)

\* the iteration received a response and stands before its sleep
ResponseHandled == CycleDone /\ cur.fetch = "ok"

\* the send of this iteration raised
SendFailed == cur.notified /\ ~cur.delivered

\* C5 (as claimed): for any response that lacks a non-empty `homeworks` sequence
\* (not an object, key absent, value falsy, value not a sequence) check_response
\* fails with the no-data kind, the cycle's message is the benign "Rabota poka ne
\* na proverke: ..." and never a "Sboi v rabote programmy: ..." message, and
\* the loop continues (stated for the cycles whose send did not raise).
C5_Original_EveryLackIsNoData ==
    (ResponseHandled /\ LacksHomeworksSequence(response))
    => /\ cur.check = "MissiningKeyException"
       /\ StartsWith(cur.message, BenignPrefix)
       /\ ~StartsWith(cur.message, FaultPrefix)
       /\ (~SendFailed => ~Propagating)

\* C5 (amended): for a response that is an object whose `homeworks` is absent or
\* falsy check_response fails with the no-data kind and the cycle's message is
\* the benign one, never a "Sboi v rabote programmy: ..." message; a response that
\* is not an object, or whose `homeworks` is truthy and not a list, fails with
\* TypeError and the cycle's message is a "Sboi v rabote programmy: ..." message.
\* In both cases the cycle reaches its sleep, and an exception leaves the loop
\* after it exactly when the send of the message raised.
C5_NoDataOnlyForAbsentOrFalsyHomeworks ==
    (ResponseHandled /\ LacksHomeworksSequence(response))
    => /\ IF NoHomeworks(response)
          THEN /\ cur.check = "MissiningKeyException"
               /\ cur.branch = "benign"
               /\ StartsWith(cur.message, BenignPrefix)
               /\ ~StartsWith(cur.message, FaultPrefix)
          ELSE /\ cur.check = "TypeError"
               /\ cur.branch = "fault"
               /\ StartsWith(cur.message, FaultPrefix)
       /\ (cur.notified \/ SuppressedError)
       /\ (Propagating <=> SendFailed)

\* C5 witness: {"homeworks": []} was answered with the benign message, delivered
C5_Witness ==
    /\ ResponseHandled
    /\ response = JsonValue("dict", List(<<>>))
    /\ cur.delivered
    /\ StartsWith(saved_error_message, BenignPrefix)
    /\ saved_error_message = cur.message
    /\ ~Propagating

-----------------------------------------------------------------------------
(* C6 *)

\* C6 (as claimed): when the fetch fails with ConnectionError (a status other
\* than 200, or a RequestException) the Notifier is handed a message beginning
\* with "Sboi v rabote programmy" unless it equals the last error message sent,
\* no status message is sent in the cycle, and no exception leaves the cycle: the
\* loop sleeps and polls again.
C6_ConnectionErrorReportedAndLoopContinues ==
    (CycleDone /\ cur.fetch = "ConnectionError")
    => /\ StartsWith(cur.message, FaultPrefix)
       /\ (cur.notified \/ SuppressedError)
       /\ cur.format = ""
       /\ saved_homework_status = cur.slot_status
       /\ ~Propagating

-----------------------------------------------------------------------------
(* C7 *)

MissingCredential == \E key \in EnvKeys : env[key].t = "None"

\* C7: with at least one of the three credentials absent the process aborts at
\* check_tokens and there is never any network activity: no request to the API
\* and no bot.send_message call, the greeting included.
C7_NoNetworkWithoutCredentials ==
    MissingCredential
    => /\ fetches = 0
       /\ sends = 0
       /\ pc \in {"check_tokens", "exited"}
       /\ (pc = "exited" => raised.exc = "SystemExit")

\* C7 witness: only TELEGRAM_CHAT_ID is absent and the process has exited
C7_Witness ==
    /\ env = [PRACTICUM_TOKEN |-> PyStr("token"), TELEGRAM_TOKEN |-> PyStr("token"),
              TELEGRAM_CHAT_ID |-> PyNone]
    /\ pc = "exited"
    /\ raised.exc = "SystemExit"
    /\ fetches = 0
    /\ sends = 0

-----------------------------------------------------------------------------
(* C8 *)

\* C8 (as claimed): wherever a fetch or a send can occur or has occurred, all
\* three credentials are non-empty strings; an empty one stops the process
\* like an absent one.
C8_CredentialsNonEmptyPastGate ==
    (pc \in {"greeting", "get_api_answer", "send_message"} \/ fetches > 0 \/ sends > 0)
    => \A key \in EnvKeys : env[key].t = "str" /\ env[key].s # ""

-----------------------------------------------------------------------------
(* C9 *)

\* parse_status has been applied in this iteration, to this record
Formatted == cur.branch = "else"
FirstHomework == response.homeworks.items[1]

\* C9: parse_status fails with KeyError when homework_name is absent or empty;
\* else fails with KeyError when status is absent or none of approved, reviewing,
\* rejected; else returns exactly
\* 'Izmenilsya status proverki raboty "{name}". {verdict}', name before verdict.
C9_FormatterDecisionList ==
    Formatted
    => LET name == FirstHomework.homework_name
           status == FirstHomework.status
       IN  IF name.t = "absent" \/ name.s = ""
           THEN cur.format = "KeyError" /\ raised.exc = "KeyError" /\ cur.message = ""
           ELSE IF status.t = "absent"
                   \/ status.s \notin {"approved", "reviewing", "rejected"}
           THEN cur.format = "KeyError" /\ raised.exc = "KeyError" /\ cur.message = ""
           ELSE /\ cur.format = "ok"
                /\ cur.message = "Izmenilsya status proverki raboty \"" \o name.s
                                 \o "\". " \o HOMEWORK_VERDICTS[status.s]

\* C9 witness: the record of "hw1", approved, was formatted
C9_Witness ==
    /\ Formatted
    /\ FirstHomework.status = PyStr("approved")
    /\ cur.message = "Izmenilsya status proverki raboty \"hw1\". Rabota proverena: revyueru vsyo ponravilos. Ura!"

-----------------------------------------------------------------------------
(* C10 *)

\* check_response has been applied in this iteration, to `response`
Validated == cur.check # ""

\* C10: check_response stops at the first of its four checks that fails: not an
\* object -> TypeError; else `homeworks` absent or falsy -> no-data; else
\* `homeworks` not a list -> TypeError; else first element not an object ->
\* TypeError; else it passes.
C10_ValidatorDecisionList ==
    Validated
    => IF response.t # "dict"
       THEN /\ cur.check = "TypeError"
            /\ error.text = "Ne tot tip dannyh. Dolzhen byt \"dict\""
       ELSE IF NoHomeworks(response)
       THEN cur.check = "MissiningKeyException"
       ELSE IF response.homeworks.t # "list"
       THEN /\ cur.check = "TypeError"
            /\ error.text = "Ne tot tip dannyh. Dolzhen byt \"list\""
       ELSE IF response.homeworks.items[1].t # "dict"
       THEN /\ cur.check = "TypeError"
            /\ error.text = "Ne tot tip dannyh. Dolzhen byt \"dict\""
       ELSE cur.check = "ok" /\ error = NoException

\* C10 witness: the fourth check failed, the first three having passed
C10_Witness ==
    /\ Validated
    /\ response.t = "dict"
    /\ response.homeworks.t = "list"
    /\ Len(response.homeworks.items) = 2
    /\ response.homeworks.items[1].t # "dict"
    /\ cur.check = "TypeError"

-----------------------------------------------------------------------------
(* C11 *)

\* main() has reached the loop: the greeting was delivered
LoopReached == chat.greeted

\* time.time() at line 109: every sleep so far has added RETRY_PERIOD to it
StartTime == now - RETRY_PERIOD * cycle

\* C11: every iteration, whatever its outcome (message sent or suppressed, benign
\* error, fault, an exception leaving the iteration), sleeps RETRY_PERIOD exactly
\* once after its work: after `cycle` iterations the clock stands `cycle` periods
\* after the start, the k-th fetch is made after exactly k-1 sleeps, and main()
\* is left by an exception only after the sleep of the iteration that raised it.
C11_ExactlyOneSleepPerCycle ==
    LoopReached
    => /\ now = timestamp + RETRY_PERIOD + RETRY_PERIOD * cycle
       /\ fetches = cycle + (IF cur.fetch # "" THEN 1 ELSE 0)
       /\ (cycle > 0 => prev.slept)
       /\ ~cur.slept
       /\ (pc = "exited" => cycle > 0 /\ fetches = cycle /\ prev.slept)

\* C11 witness: the second iteration raised KeyError and main() ended after two sleeps
C11_Witness ==
    /\ pc = "exited"
    /\ raised.exc = "KeyError"
    /\ cycle = 2
    /\ fetches = 2
    /\ prev.slept
    /\ now = timestamp + 3 * RETRY_PERIOD

-----------------------------------------------------------------------------
(* C12 *)

\* C12: the from_date of every request is the value computed once at line 109,
\* the start time less RETRY_PERIOD, whatever the iterations before it did.
C12_CursorNeverAdvanced ==
    (cur.fetch # "")
    => /\ cur.from_date = StartTime - RETRY_PERIOD
       /\ cur.from_date = timestamp
       /\ (cycle > 0 => prev.from_date = cur.from_date)

\* C12 witness: the third request, after a delivered message, carries the first
\* request's from_date
C12_Witness ==
    /\ cycle = 2
    /\ cur.fetch # ""
    /\ prev.delivered
    /\ StartTime = 1300
    /\ cur.from_date = 700
    /\ prev.from_date = 700

-----------------------------------------------------------------------------
(* C13 *)

\* the iteration ended in an except clause and stands before its sleep
ErrorCycleDone == CycleDone /\ cur.branch \in {"benign", "fault"}

\* C13 (as claimed): when an error message E was sent, a different message of any
\* kind, error or homework status, was shown after it, and a later cycle yields
\* E again, E is handed to the Notifier again.  Stated for E being the last
\* error text the chat received and the last text it received being another one.
C13_Original_RenotifiedAfterAnyOtherMessage ==
    (ErrorCycleDone /\ cur.shown_error = cur.message /\ cur.shown # cur.message)
    => cur.notified

\* C13 (amended): an error message E that a cycle yields is handed to the Notifier
\* exactly when it differs from the last error message the chat received; so E
\* is sent again after a different error message was sent in between, and is
\* suppressed while E is the last error message sent, whatever homework-status
\* messages were shown since.
C13_RenotifiedAfterADifferentErrorOnly ==
    ErrorCycleDone
    => /\ (cur.notified <=> cur.shown_error # cur.message)
       /\ ((prev.branch \in {"benign", "fault"} /\ prev.message # cur.message)
           => cur.notified)
       /\ ((cur.shown_error = cur.message /\ StartsWith(cur.shown, StatusPrefix))
           => ~cur.notified)

\* C13 witness: E was the last error text received, another error text was
\* delivered in the cycle before, and E is delivered again
C13_Witness ==
    /\ ErrorCycleDone
    /\ prev.branch \in {"benign", "fault"}
    /\ prev.shown_error = cur.message
    /\ prev.delivered
    /\ prev.message # cur.message
    /\ cur.delivered
    /\ chat.error = cur.message

-----------------------------------------------------------------------------
(* C14 *)

\* C14: in every state saved_homework_status is the last homework-status text
\* the chat received and saved_error_message the last error text it received,
\* each "" when none was; a send that raised changes neither slot.
C14_SlotsHoldLastDeliveredMessages ==
    /\ saved_homework_status = chat.status
    /\ saved_error_message = chat.error
    /\ ((cur.notified /\ ~cur.delivered)
        => /\ saved_homework_status = cur.slot_status
           /\ saved_error_message = cur.slot_error)

\* C14 witness: a status text was delivered, the next, different one was not,
\* and the slot still holds the first
C14_Witness ==
    /\ CycleDone
    /\ prev.format = "ok"
    /\ prev.delivered
    /\ cur.format = "ok"
    /\ cur.notified
    /\ ~cur.delivered
    /\ cur.message # prev.message
    /\ saved_homework_status = prev.message

-----------------------------------------------------------------------------
(* C15 *)

\* C15: from its fetch on, an iteration that ends in an except clause leaves
\* saved_homework_status as it found it, an iteration that reaches the else
\* clause leaves saved_error_message as it found it, and an iteration that
\* delivers no message (suppressed, or nothing to send) leaves both.
C15_SlotsAreIndependent ==
    IF cur.fetch = ""
    THEN (prev.slept /\ ~prev.delivered)
         => /\ saved_homework_status = prev.slot_status
            /\ saved_error_message = prev.slot_error
    ELSE
       /\ (cur.branch \in {"benign", "fault"}
           => saved_homework_status = cur.slot_status)
       /\ (cur.branch = "else" => saved_error_message = cur.slot_error)
       /\ (~cur.notified
           => /\ saved_homework_status = cur.slot_status
              /\ saved_error_message = cur.slot_error)

\* C15 witness: a status message is delivered while an error message is the last
\* error sent, and that slot is kept
C15_Witness ==
    /\ CycleDone
    /\ cur.format = "ok"
    /\ cur.delivered
    /\ cur.slot_error # ""
    /\ saved_error_message = cur.slot_error
    /\ saved_homework_status = cur.message
    /\ saved_homework_status # cur.slot_status

-----------------------------------------------------------------------------
(* C16 *)

\* the sends an iteration has made
SendsOf(c) == IF c.notified THEN 1 ELSE 0

\* C16: an iteration makes exactly one fetch and at most one send, the send
\* after its fetch and before its sleep, and iterations do not overlap: nothing
\* of an iteration is done before the sleep of the one before it has ended,
\* and no send is made between that sleep and the fetch.
C16_OneFetchAtMostOneSendPerCycle ==
    LoopReached
    => /\ fetches = cycle + (IF cur.fetch # "" THEN 1 ELSE 0)
       /\ (cur.fetch = "" => cur = NoCycle)
       /\ (cur.fetch # "" => sends = cur.sends_before + SendsOf(cur))
       /\ (cur.notified => pc \in {"finally"})
       /\ (cycle > 0
           => /\ prev.fetch # ""
              /\ prev.slept
              /\ IF cur.fetch = ""
                 THEN sends = prev.sends_before + SendsOf(prev)
                 ELSE cur.sends_before = prev.sends_before + SendsOf(prev))

\* C16 witness: two iterations, each with its fetch and its one send
C16_Witness ==
    /\ CycleDone
    /\ cycle = 1
    /\ fetches = 2
    /\ prev.delivered
    /\ cur.delivered
    /\ sends = 3

-----------------------------------------------------------------------------
(* C17 *)

\* r is a response whose `homeworks` is a non-empty list
HasHomeworks(r) ==
    /\ r.t = "dict"
    /\ r.homeworks.t = "list"
    /\ r.homeworks.items # <<>>

\* the responses that differ from r in the later elements of `homeworks` only
SameFirstHomework(r) ==
    {r2 \in Responses :
        /\ HasHomeworks(r2)
        /\ r2.homeworks.items[1] = r.homeworks.items[1]}

\* what the iteration at hand has done with its response
Observed ==
    [check |-> cur.check,
     call |-> IF cur.notified THEN cur.message ELSE "",
     status |-> saved_homework_status,
     error |-> saved_error_message,
     raised |-> raised.exc]

\* what bot.send_message did in the iteration at hand, if it was called
Telegram == IF SendFailed THEN "TelegramError" ELSE "ok"

\* C17: only the first element of `homeworks` influences an iteration: what
\* the iteration did with its response (validator outcome, the send_message
\* call or its absence, the resulting slots) is what it does, from the same
\* slots, with every response whose non-empty `homeworks` list has the same
\* first element, whatever the later elements are.
C17_OnlyFirstHomeworkInfluences ==
    (ResponseHandled /\ HasHomeworks(response))
    => \A r2 \in SameFirstHomework(response) :
          IterationOutcome(r2, cur.slot_status, cur.slot_error, Telegram) = Observed

\* C17 witness: a status message delivered for a list whose second element is
\* no object, and a response with the same first element and another tail
C17_Witness ==
    /\ ResponseHandled
    /\ HasHomeworks(response)
    /\ Len(response.homeworks.items) = 2
    /\ response.homeworks.items[2] = NotARecord
    /\ cur.format = "ok"
    /\ cur.delivered
    /\ \E r2 \in SameFirstHomework(response) : r2 # response

-----------------------------------------------------------------------------
(* C18 *)

\* C18: startup ordering. No send is made before the credential check has
\* passed, no fetch before the greeting has been sent and has succeeded, and a
\* greeting send that raises ends the process with no fetch and no sleep.
C18_StartupOrdering ==
    /\ (pc \in {"check_tokens", "bot", "greeting"} => sends = 0 /\ fetches = 0)
    /\ (sends > 0 => ~MissingCredential)
    /\ (fetches > 0 \/ pc \in {"get_api_answer", "check_response", "except",
                                "parse_status", "send_message", "finally"}
        => chat.greeted /\ sends >= 1)
    /\ ((pc = "exited" /\ sends > 0 /\ ~chat.greeted)
        => /\ raised.exc = "TelegramAnyErrorException"
           /\ sends = 1
           /\ fetches = 0
           /\ cycle = 0
           /\ now = timestamp + RETRY_PERIOD
           /\ cur = NoCycle
           /\ prev = NoCycle)

\* C18 witness: the greeting send raised and the process has ended
C18_Witness ==
    /\ pc = "exited"
    /\ raised.exc = "TelegramAnyErrorException"
    /\ ~MissingCredential
    /\ sends = 1
    /\ ~chat.greeted
    /\ fetches = 0
    /\ cycle = 0

====
